---- MODULE Spec2Model ----
(***************************************************************************)
(* Model of svm/src/rollback_accounts.rs: the RollbackAccounts snapshot,   *)
(* its constructor, its count / iter / data_size views and the             *)
(* RollbackAccountsIter state machine.                                     *)
(*                                                                         *)
(* Option<T> is modelled as a sequence of length at most one: None is <<>> *)
(* and Some(x) is <<x>>.  A TransactionAccount is the pair                 *)
(* <<address, account>>.  usize is modelled at the reduced width UsizeBits *)
(* so that the saturating addition of data_size can actually saturate.     *)
(* An account carries the fields the constructor reads or writes and the   *)
(* ones it must leave alone: lamports, data, owner and rent_epoch.         *)
(*                                                                         *)
(* The views only read the snapshot, so the order in which they are called *)
(* does not matter to it; the model calls them in the order of the         *)
(* pipeline: count, then data_size for the cost model, then the traversal  *)
(* of the write-back.                                                      *)
(***************************************************************************)
EXTENDS Integers, Sequences, FiniteSets, TLC

\* ---- bounds of the model ----
NumKeys == 2
MaxLamports == 1
MaxEpoch == 1
MaxDataLen == 1
UsizeBits == 1
MaxNextCalls == 3

\* ---- value domains ----
Pubkey == 1..NumKeys
Epoch == 0..MaxEpoch
Lamports == 0..MaxLamports
Byte == {0, 1}
Owner == {"Pubkey::default()", "system_program::id()"}
UsizeMax == 2^UsizeBits - 1
Data == UNION {[1..n -> Byte] : n \in 0..MaxDataLen}
AccountSharedData == [lamports : Lamports, data : Data, owner : Owner, rent_epoch : Epoch]
NonceInfo == [address : Pubkey, account : AccountSharedData]

None == <<>>
Some(x) == <<x>>
OptionOf(S) == {None} \cup {Some(x) : x \in S}

\* ---- account mutators used by the constructor ----
set_data_from_slice(account, slice) == [account EXCEPT !.data = slice]

set_rent_epoch(account, epoch) == [account EXCEPT !.rent_epoch = epoch]

\* ---- variants of new with one slip each ----
\* the address comparison inverted
new_AddressCompareInverted(n, address, account, loaded_rent_epoch) ==
    IF n # None
    THEN IF address # n[1].address
         THEN [tag |-> "SameNonceAndFeePayer",
               nonce |-> <<address, set_data_from_slice(account, n[1].account.data)>>]
         ELSE [tag |-> "SeparateNonceAndFeePayer",
               nonce |-> <<n[1].address, n[1].account>>,
               fee_payer |-> <<address, account>>]
    ELSE [tag |-> "FeePayerOnly",
          fee_payer |-> <<address, set_rent_epoch(account, loaded_rent_epoch)>>]

\* the rent epoch of the fee payer is not reset when there is no nonce
new_KeepsMutatedRentEpoch(n, address, account, loaded_rent_epoch) ==
    IF n # None
    THEN IF address = n[1].address
         THEN [tag |-> "SameNonceAndFeePayer",
               nonce |-> <<address, set_data_from_slice(account, n[1].account.data)>>]
         ELSE [tag |-> "SeparateNonceAndFeePayer",
               nonce |-> <<n[1].address, n[1].account>>,
               fee_payer |-> <<address, account>>]
    ELSE [tag |-> "FeePayerOnly", fee_payer |-> <<address, account>>]

\* the merged entry is the nonce account as a whole, not the fee payer with the nonce's data
new_MergedEntryIsNonceAccount(n, address, account, loaded_rent_epoch) ==
    IF n # None
    THEN IF address = n[1].address
         THEN [tag |-> "SameNonceAndFeePayer", nonce |-> <<address, n[1].account>>]
         ELSE [tag |-> "SeparateNonceAndFeePayer",
               nonce |-> <<n[1].address, n[1].account>>,
               fee_payer |-> <<address, account>>]
    ELSE [tag |-> "FeePayerOnly",
          fee_payer |-> <<address, set_rent_epoch(account, loaded_rent_epoch)>>]

\* the separate fee payer has its rent epoch reset as in the no-nonce branch
new_SeparateResetsRentEpoch(n, address, account, loaded_rent_epoch) ==
    IF n # None
    THEN IF address = n[1].address
         THEN [tag |-> "SameNonceAndFeePayer",
               nonce |-> <<address, set_data_from_slice(account, n[1].account.data)>>]
         ELSE [tag |-> "SeparateNonceAndFeePayer",
               nonce |-> <<n[1].address, n[1].account>>,
               fee_payer |-> <<address, set_rent_epoch(account, loaded_rent_epoch)>>]
    ELSE [tag |-> "FeePayerOnly",
          fee_payer |-> <<address, set_rent_epoch(account, loaded_rent_epoch)>>]

\* the rent epoch is reset before the branch on the nonce, in every case
new_AlwaysResetsRentEpoch(n, address, account, loaded_rent_epoch) ==
    LET reset == set_rent_epoch(account, loaded_rent_epoch)
    IN IF n # None
       THEN IF address = n[1].address
            THEN [tag |-> "SameNonceAndFeePayer",
                  nonce |-> <<address, set_data_from_slice(reset, n[1].account.data)>>]
            ELSE [tag |-> "SeparateNonceAndFeePayer",
                  nonce |-> <<n[1].address, n[1].account>>,
                  fee_payer |-> <<address, reset>>]
       ELSE [tag |-> "FeePayerOnly", fee_payer |-> <<address, reset>>]

\* no check for the nonce account being the fee payer
new_NoAliasCheck(n, address, account, loaded_rent_epoch) ==
    IF n # None
    THEN [tag |-> "SeparateNonceAndFeePayer",
          nonce |-> <<n[1].address, n[1].account>>,
          fee_payer |-> <<address, account>>]
    ELSE [tag |-> "FeePayerOnly",
          fee_payer |-> <<address, set_rent_epoch(account, loaded_rent_epoch)>>]

\* ---- RollbackAccounts::new ----
new(n, address, account, loaded_rent_epoch) ==
    IF n # None
    THEN IF address = n[1].address
         THEN [tag |-> "SameNonceAndFeePayer",
               nonce |-> <<address, set_data_from_slice(account, n[1].account.data)>>]
         ELSE [tag |-> "SeparateNonceAndFeePayer",
               nonce |-> <<n[1].address, n[1].account>>,
               fee_payer |-> <<address, account>>]
    ELSE [tag |-> "FeePayerOnly",
          fee_payer |-> <<address, set_rent_epoch(account, loaded_rent_epoch)>>]

\* ---- variant of count: one per role, so the merged entry counts twice ----
count_OnePerRole(self) ==
    IF self.tag = "FeePayerOnly" THEN 1 ELSE 2

\* ---- RollbackAccounts::count ----
count(self) ==
    IF self.tag \in {"FeePayerOnly", "SameNonceAndFeePayer"} THEN 1 ELSE 2

\* ---- RollbackAccounts::iter ----
iter(self) ==
    CASE self.tag = "FeePayerOnly" ->
            [fee_payer |-> Some(self.fee_payer), nonce |-> None]
      [] self.tag = "SameNonceAndFeePayer" ->
            [fee_payer |-> None, nonce |-> Some(self.nonce)]
      [] self.tag = "SeparateNonceAndFeePayer" ->
            [fee_payer |-> Some(self.fee_payer), nonce |-> Some(self.nonce)]

\* ---- variants of next with one slip each ----
\* the nonce slot is drained before the fee payer slot
next_NonceFirst(self) ==
    IF self.nonce # None
    THEN [ret |-> self.nonce, self |-> [self EXCEPT !.nonce = None]]
    ELSE IF self.fee_payer # None
         THEN [ret |-> self.fee_payer, self |-> [self EXCEPT !.fee_payer = None]]
         ELSE [ret |-> None, self |-> self]

\* returning the fee payer also empties the nonce slot
next_TakesBothSlots(self) ==
    IF self.fee_payer # None
    THEN [ret |-> self.fee_payer, self |-> [fee_payer |-> None, nonce |-> None]]
    ELSE IF self.nonce # None
         THEN [ret |-> self.nonce, self |-> [self EXCEPT !.nonce = None]]
         ELSE [ret |-> None, self |-> self]

\* ---- RollbackAccountsIter::next: the returned item and the iterator left behind ----
next(self) ==
    IF self.fee_payer # None
    THEN [ret |-> self.fee_payer, self |-> [self EXCEPT !.fee_payer = None]]
    ELSE IF self.nonce # None
         THEN [ret |-> self.nonce, self |-> [self EXCEPT !.nonce = None]]
         ELSE [ret |-> None, self |-> self]

\* ---- variant of the addition: wrapping instead of saturating ----
wrapping_add(a, b) == (a + b) % (UsizeMax + 1)

\* ---- usize::saturating_add ----
saturating_add(a, b) == IF a + b > UsizeMax THEN UsizeMax ELSE a + b

\* ---- the for loop of data_size ----
RECURSIVE data_size_loop(_, _)
data_size_loop(it, total_size) ==
    LET r == next(it)
    IN IF r.ret = None
       THEN total_size
       ELSE data_size_loop(r.self, saturating_add(total_size, Len(r.ret[1][2].data)))

\* ---- RollbackAccounts::data_size ----
data_size(self) == data_size_loop(iter(self), 0)

\* ---- state ----
VARIABLES nonce, fee_payer_address, fee_payer_account, fee_payer_loaded_rent_epoch,
          rollback_accounts, count_ret, data_size_ret, rollback_iter, returned

args == <<nonce, fee_payer_address, fee_payer_account, fee_payer_loaded_rent_epoch>>
vars == <<nonce, fee_payer_address, fee_payer_account, fee_payer_loaded_rent_epoch,
          rollback_accounts, count_ret, data_size_ret, rollback_iter, returned>>

Init ==
    /\ nonce \in OptionOf(NonceInfo)
    /\ fee_payer_address \in Pubkey
    /\ fee_payer_account \in AccountSharedData
    /\ fee_payer_loaded_rent_epoch \in Epoch
    /\ rollback_accounts = None
    /\ count_ret = None
    /\ data_size_ret = None
    /\ rollback_iter = None
    /\ returned = <<>>

\* the pipeline constructs the snapshot once from the arguments
New ==
    /\ rollback_accounts = None
    /\ rollback_accounts' = Some(new(nonce, fee_payer_address, fee_payer_account,
                                     fee_payer_loaded_rent_epoch))
    /\ UNCHANGED <<args, count_ret, data_size_ret, rollback_iter, returned>>

Count ==
    /\ rollback_accounts # None
    /\ count_ret = None
    /\ count_ret' = Some(count(rollback_accounts[1]))
    /\ UNCHANGED <<args, rollback_accounts, data_size_ret, rollback_iter, returned>>

DataSize ==
    /\ count_ret # None
    /\ data_size_ret = None
    /\ data_size_ret' = Some(data_size(rollback_accounts[1]))
    /\ UNCHANGED <<args, rollback_accounts, count_ret, rollback_iter, returned>>

\* iter() hands out a fresh iterator; `returned` records what its next() calls return
Iter ==
    /\ data_size_ret # None
    /\ rollback_iter = None
    /\ rollback_iter' = Some(iter(rollback_accounts[1]))
    /\ returned' = <<>>
    /\ UNCHANGED <<args, rollback_accounts, count_ret, data_size_ret>>

IterNext ==
    /\ rollback_iter # None
    /\ Len(returned) < MaxNextCalls
    /\ LET r == next(rollback_iter[1])
       IN /\ rollback_iter' = Some(r.self)
          /\ returned' = Append(returned, r.ret)
    /\ UNCHANGED <<args, rollback_accounts, count_ret, data_size_ret>>

Next == New \/ Count \/ DataSize \/ Iter \/ IterNext

Spec == Init /\ [][Next]_vars

\* ---- helpers for the properties ----
built == rollback_accounts # None
ra == rollback_accounts[1]
exhausted == \E i \in 1..Len(returned) : returned[i] = None
yielded == SelectSeq(returned, LAMBDA r : r # None)
RECURSIVE SumDataLen(_)
SumDataLen(rs) ==
    IF rs = <<>> THEN 0 ELSE Len(Head(rs)[1][2].data) + SumDataLen(Tail(rs))
IsPrefix(s, t) == Len(s) <= Len(t) /\ \A i \in 1..Len(s) : s[i] = t[i]

\* C1: the variant built by new is fixed by the nonce option and the address
\* comparison alone: no nonce gives FeePayerOnly, a nonce at the fee payer's
\* address gives SameNonceAndFeePayer, a nonce at another address gives
\* SeparateNonceAndFeePayer; and new can be applied to every input.
C1_VariantSelection ==
    /\ ~built => ENABLED New
    /\ built =>
         /\ (nonce = None => ra.tag = "FeePayerOnly")
         /\ (nonce # None /\ nonce[1].address = fee_payer_address
                => ra.tag = "SameNonceAndFeePayer")
         /\ (nonce # None /\ nonce[1].address # fee_payer_address
                => ra.tag = "SeparateNonceAndFeePayer")
         /\ (ra.tag = "SameNonceAndFeePayer"
                <=> (nonce # None /\ nonce[1].address = fee_payer_address))

C1_Witness ==
    /\ built
    /\ nonce # None
    /\ nonce[1].address = fee_payer_address
    /\ ra.tag = "SameNonceAndFeePayer"

\* C2: without a nonce the result is FeePayerOnly at fee_payer_address, with the
\* loaded rent epoch whatever rent epoch the input account carried, and with the
\* input account's lamports, data and owner.
C2_FeePayerOnly ==
    (built /\ nonce = None) =>
        /\ ra.tag = "FeePayerOnly"
        /\ ra.fee_payer[1] = fee_payer_address
        /\ ra.fee_payer[2].rent_epoch = fee_payer_loaded_rent_epoch
        /\ ra.fee_payer[2].lamports = fee_payer_account.lamports
        /\ ra.fee_payer[2].data = fee_payer_account.data
        /\ ra.fee_payer[2].owner = fee_payer_account.owner

C2_Witness ==
    /\ built
    /\ nonce = None
    /\ fee_payer_account.rent_epoch # fee_payer_loaded_rent_epoch
    /\ ra.fee_payer[2].rent_epoch = fee_payer_loaded_rent_epoch

\* C3: with a nonce at the fee payer's address the result is SameNonceAndFeePayer
\* whose entry is at fee_payer_address, carries the nonce account's data and the
\* input fee payer account's lamports and rent epoch.
C3_SameNonceAndFeePayer ==
    (built /\ nonce # None /\ nonce[1].address = fee_payer_address) =>
        /\ ra.tag = "SameNonceAndFeePayer"
        /\ ra.nonce[1] = fee_payer_address
        /\ ra.nonce[2].data = nonce[1].account.data
        /\ ra.nonce[2].lamports = fee_payer_account.lamports
        /\ ra.nonce[2].rent_epoch = fee_payer_account.rent_epoch

C3_Witness ==
    /\ built
    /\ nonce # None
    /\ nonce[1].address = fee_payer_address
    /\ nonce[1].account.data # fee_payer_account.data
    /\ nonce[1].account.lamports # fee_payer_account.lamports
    /\ nonce[1].account.rent_epoch # fee_payer_account.rent_epoch
    /\ fee_payer_account.rent_epoch # fee_payer_loaded_rent_epoch
    /\ ra.nonce[2].data = nonce[1].account.data

\* C4: with a nonce at another address the result is SeparateNonceAndFeePayer
\* whose nonce entry is the nonce's (address, account) and whose fee_payer entry
\* is (fee_payer_address, fee_payer_account), every field as given.
C4_SeparateNonceAndFeePayer ==
    (built /\ nonce # None /\ nonce[1].address # fee_payer_address) =>
        /\ ra.tag = "SeparateNonceAndFeePayer"
        /\ ra.nonce = <<nonce[1].address, nonce[1].account>>
        /\ ra.fee_payer = <<fee_payer_address, fee_payer_account>>

C4_Witness ==
    /\ built
    /\ nonce # None
    /\ nonce[1].address # fee_payer_address
    /\ nonce[1].account # fee_payer_account
    /\ fee_payer_account.rent_epoch # fee_payer_loaded_rent_epoch
    /\ ra.tag = "SeparateNonceAndFeePayer"

\* C5: count() is the number of entries an iterator from iter() returns before
\* it returns None: 1 for FeePayerOnly and SameNonceAndFeePayer, 2 for
\* SeparateNonceAndFeePayer.
C5_CountMatchesIter ==
    count_ret # None =>
        /\ (exhausted => count_ret[1] = Len(yielded))
        /\ (ra.tag = "FeePayerOnly" => count_ret[1] = 1)
        /\ (ra.tag = "SameNonceAndFeePayer" => count_ret[1] = 1)
        /\ (ra.tag = "SeparateNonceAndFeePayer" => count_ret[1] = 2)

C5_Witness ==
    /\ count_ret = Some(2)
    /\ exhausted
    /\ Len(yielded) = 2

\* C6: the entries come out in a fixed order: the fee_payer entry alone for
\* FeePayerOnly, the merged nonce entry alone for SameNonceAndFeePayer, the
\* fee_payer entry and then the nonce entry for SeparateNonceAndFeePayer.
C6_Expected ==
    CASE ra.tag = "FeePayerOnly" -> <<Some(ra.fee_payer)>>
      [] ra.tag = "SameNonceAndFeePayer" -> <<Some(ra.nonce)>>
      [] ra.tag = "SeparateNonceAndFeePayer" -> <<Some(ra.fee_payer), Some(ra.nonce)>>

C6_IterOrder ==
    rollback_iter # None =>
        /\ IsPrefix(yielded, C6_Expected)
        /\ (exhausted => yielded = C6_Expected)
        /\ (ra.tag = "SeparateNonceAndFeePayer" =>
              \A i, j \in 1..Len(returned) :
                  (returned[i] = Some(ra.nonce) /\ returned[j] = Some(ra.fee_payer))
                      => j < i)

C6_Witness ==
    /\ rollback_iter # None
    /\ ra.tag = "SeparateNonceAndFeePayer"
    /\ exhausted
    /\ ra.nonce[2] # ra.fee_payer[2]
    /\ yielded = <<Some(ra.fee_payer), Some(ra.nonce)>>

\* C7: data_size() is the sum of the data lengths of the entries iter() yields,
\* added with saturation: min(sum, usize::MAX), never a wrapped value; for
\* SeparateNonceAndFeePayer it is len(nonce.data) + len(fee_payer.data) when
\* that sum fits in a usize.
C7_DataSize ==
    data_size_ret # None =>
        /\ data_size_ret[1] \in 0..UsizeMax
        /\ (exhausted =>
              data_size_ret[1] = IF SumDataLen(yielded) > UsizeMax
                                 THEN UsizeMax ELSE SumDataLen(yielded))
        /\ (ra.tag = "SeparateNonceAndFeePayer" =>
              LET sum == Len(ra.nonce[2].data) + Len(ra.fee_payer[2].data)
              IN /\ (sum <= UsizeMax => data_size_ret[1] = sum)
                 /\ (sum > UsizeMax => data_size_ret[1] = UsizeMax))

C7_Witness ==
    /\ data_size_ret # None
    /\ exhausted
    /\ ra.tag = "SeparateNonceAndFeePayer"
    /\ Len(ra.nonce[2].data) + Len(ra.fee_payer[2].data) > UsizeMax
    /\ data_size_ret[1] = UsizeMax

\* C8: with a nonce present the snapshot does not depend on
\* fee_payer_loaded_rent_epoch: the snapshot built is the one any other loaded
\* rent epoch would have produced from the same nonce, address and account.
C8_LoadedRentEpochIgnored ==
    (built /\ nonce # None) =>
        \A e \in Epoch : ra = new(nonce, fee_payer_address, fee_payer_account, e)

C8_Witness ==
    /\ built
    /\ nonce # None
    /\ nonce[1].address = fee_payer_address
    /\ fee_payer_loaded_rent_epoch # fee_payer_account.rent_epoch
    /\ fee_payer_loaded_rent_epoch # nonce[1].account.rent_epoch

\* C9: the entries an iterator yields have pairwise distinct addresses, and a
\* SeparateNonceAndFeePayer snapshot has nonce address # fee payer address.
C9_DistinctAddresses ==
    built =>
        /\ (ra.tag = "SeparateNonceAndFeePayer" => ra.nonce[1] # ra.fee_payer[1])
        /\ \A i, j \in 1..Len(yielded) :
              i # j => yielded[i][1][1] # yielded[j][1][1]

C9_Witness ==
    /\ built
    /\ ra.tag = "SeparateNonceAndFeePayer"
    /\ Len(yielded) = 2
    /\ yielded[1][1][1] # yielded[2][1][1]

\* C10: an iterator returns each pending entry once and is then exhausted for
\* good: at most 2 calls return Some, after a None every later call returns
\* None, and exactly the first count() calls return Some.
C10_IterExhausts ==
    rollback_iter # None =>
        /\ Len(yielded) <= 2
        /\ \A i, j \in 1..Len(returned) :
              (i < j /\ returned[i] = None) => returned[j] = None
        /\ \A i \in 1..Len(returned) :
              (returned[i] # None) <=> (i <= count(ra))
        /\ \A i, j \in 1..Len(yielded) : i # j => yielded[i] # yielded[j]

C10_Witness ==
    /\ rollback_iter # None
    /\ Len(returned) = MaxNextCalls
    /\ Len(yielded) = count(ra)
    /\ returned[1] # None
    /\ returned[2] = None
    /\ returned[3] = None

====
